---------------------------- MODULE Spec2Model ----------------------------
(***************************************************************************)
(* Fleet-maintenance logging backend (backend/server.py,                   *)
(* backend/google_sync.py, backend/models.py).                             *)
(*                                                                         *)
(* Text is modelled as a sequence of one-character strings, so that        *)
(* str.strip, str.split, str.lower and the "in" substring test are         *)
(* computed as Python computes them.  None is a value distinct from every  *)
(* text.                                                                   *)
(***************************************************************************)
EXTENDS Integers, Sequences, FiniteSets, TLC

(***************************************************************************)
(* Bounds of the model.                                                    *)
(***************************************************************************)
MaxSubmits == 1       \* submissions received in one behaviour
MaxTyres == 1         \* entries in each tyre / image list of one request
MaxInitRows == 3      \* rows already in the sheet at start-up
MaxEntries == 2       \* entries of a list put through the codec
MaxPosLen == 2        \* characters of a position put through the codec
MaxNumLen == 1        \* characters of a number put through the codec

(***************************************************************************)
(* Text primitives (Python str).                                           *)
(***************************************************************************)
None == <<"None">>

NL == "\n"
SP == " "
COLON == ":"

IsSpace(c) == c \in {SP, NL}

RECURSIVE LStrip(_)
LStrip(s) ==
    IF s = <<>> THEN <<>>
    ELSE IF IsSpace(Head(s)) THEN LStrip(Tail(s)) ELSE s

RECURSIVE RStrip(_)
RStrip(s) ==
    IF s = <<>> THEN <<>>
    ELSE IF IsSpace(s[Len(s)]) THEN RStrip(SubSeq(s, 1, Len(s) - 1)) ELSE s

\* str.strip()
Strip(s) == RStrip(LStrip(s))

\* the 1-based index of the first occurrence of sub in s, 0 when absent
\* (str.find, shifted by one)
Find(s, sub) ==
    LET hits == {i \in 1..(Len(s) - Len(sub) + 1) :
                    SubSeq(s, i, i + Len(sub) - 1) = sub}
    IN IF hits = {} THEN 0
       ELSE CHOOSE i \in hits : \A j \in hits : i <= j

\* sub in s
Contains(s, sub) == Find(s, sub) # 0

\* s.split(sep, 1): one or two parts
Split1(s, sep) ==
    LET i == Find(s, sep)
    IN IF i = 0 THEN <<s>>
       ELSE <<SubSeq(s, 1, i - 1), SubSeq(s, i + Len(sep), Len(s))>>

\* s.split("\n"): every part, empty ones included
RECURSIVE SplitLines(_)
SplitLines(s) ==
    LET i == Find(s, <<NL>>)
    IN IF i = 0 THEN <<s>>
       ELSE <<SubSeq(s, 1, i - 1)>> \o SplitLines(SubSeq(s, i + 1, Len(s)))

\* "\n".join(lines)
RECURSIVE JoinLines(_)
JoinLines(lines) ==
    IF lines = <<>> THEN <<>>
    ELSE IF Len(lines) = 1 THEN lines[1]
    ELSE lines[1] \o <<NL>> \o JoinLines(Tail(lines))

LowerChar(c) ==
    CASE c = "H" -> "h"
      [] c = "R" -> "r"
      [] c = "N" -> "n"
      [] c = "L" -> "l"
      [] c = "A" -> "a"
      [] c = "U" -> "u"
      [] OTHER -> c

\* str.lower()
Lower(s) == [i \in 1..Len(s) |-> LowerChar(s[i])]

\* x or y, for a text or None x
OrElse(x, y) == IF x = None \/ x = <<>> THEN y ELSE x

\* truth value of a text or None
Truthy(x) == x # None /\ x # <<>>


(***************************************************************************)
(* Readable-text codec: the decoders of server.py and the lines the        *)
(* submission writes.                                                      *)
(***************************************************************************)
NO_PHOTO == <<"(", "n", "o", " ", "p", "h", "o", "t", "o", ")">>

\* [ln.strip() for ln in str(s).split("\n") if ln.strip()]
RECURSIVE StripNonBlank(_)
StripNonBlank(parts) ==
    IF parts = <<>> THEN <<>>
    ELSE IF Strip(Head(parts)) = <<>> THEN StripNonBlank(Tail(parts))
    ELSE <<Strip(Head(parts))>> \o StripNonBlank(Tail(parts))

StrippedLines(s) == StripNonBlank(SplitLines(s))

ParseReadableLine(line) ==
    IF Contains(line, <<COLON>>)
    THEN LET parts == Split1(line, <<COLON>>)
         IN [position |-> Strip(parts[1]), number |-> Strip(parts[2])]
    ELSE [position |-> line, number |-> <<>>]

_parse_readable_list_nostrip(readable_str) ==
    IF ~Truthy(readable_str) THEN <<>>
    ELSE LET lines == StrippedLines(readable_str)
         IN [i \in 1..Len(lines) |->
                IF Contains(lines[i], <<COLON>>)
                THEN LET parts == Split1(lines[i], <<COLON>>)
                     IN [position |-> parts[1], number |-> parts[2]]
                ELSE [position |-> lines[i], number |-> <<>>]]

_parse_readable_list(readable_str) ==
    IF ~Truthy(readable_str) THEN <<>>
    ELSE LET lines == StrippedLines(readable_str)
         IN [i \in 1..Len(lines) |-> ParseReadableLine(lines[i])]

ParseLinkLine(line) ==
    LET parts == IF Contains(line, <<COLON, SP>>)
                 THEN Split1(line, <<COLON, SP>>)
                 ELSE Split1(line, <<COLON>>)
    IN IF Len(parts) = 2
       THEN LET pos == Strip(parts[1])
                link == Strip(parts[2])
            IN [position |-> pos,
                photo_link |-> IF link = NO_PHOTO \/ link = <<>> \/ link = None
                               THEN <<>> ELSE link]
       ELSE [position |-> Strip(parts[1]), photo_link |-> <<>>]

_parse_links_list_as_strings_keep(links_str) ==
    IF ~Truthy(links_str) THEN <<>>
    ELSE LET lines == StrippedLines(links_str)
         IN [i \in 1..Len(lines) |->
                LET parts == IF Contains(lines[i], <<COLON, SP>>)
                             THEN Split1(lines[i], <<COLON, SP>>)
                             ELSE Split1(lines[i], <<COLON>>)
                IN IF Len(parts) = 2
                   THEN [position |-> Strip(parts[1]), photo_link |-> Strip(parts[2])]
                   ELSE [position |-> Strip(parts[1]), photo_link |-> <<>>]]

_parse_links_list_as_strings(links_str) ==
    IF ~Truthy(links_str) THEN <<>>
    ELSE LET lines == StrippedLines(links_str)
         IN [i \in 1..Len(lines) |-> ParseLinkLine(lines[i])]

\* f"{t.position}: {t.number}"
ReadableLine(t) == t.position \o <<COLON, SP>> \o t.number

\* f"{t.position}: {link}" when a payload was supplied, else
\* f"{t.position}: (no photo)"
LinkLine(t, link) ==
    IF Truthy(t.photo_base64)
    THEN t.position \o <<COLON, SP>> \o link
    ELSE t.position \o <<COLON, SP>> \o NO_PHOTO

\* one pass of the body of a tyre loop over the two line lists
AppendTyreLines(lists, t, link) ==
    [readable |-> Append(lists.readable, ReadableLine(t)),
     links |-> Append(lists.links, LinkLine(t, link))]

\* one pass of the body of the vehicle-image loop
AppendImageLines(lists, v, link) ==
    [readable |-> Append(lists.readable, v.position),
     links |-> Append(lists.links, LinkLine(v, link))]

(***************************************************************************)
(* The external sheet: header row, rows, read_sheet_logs and               *)
(* sheet_row_to_json.                                                      *)
(***************************************************************************)
\* the header row of the sheet, in the column order of the appended row
HEADERS ==
    <<"Record ID", "Timestamp", "Vehicle Number",
      "Battery1 Number", "Battery1 Image Link",
      "Battery2 Number", "Battery2 Image Link",
      "Odometer Value", "Odometer Image Link",
      "Prime Tyres (Readable)", "Prime Tyre Links",
      "Trailer Tyres (Readable)", "Trailer Tyre Links",
      "Vehicle Images (Readable)", "Vehicle Image Links",
      "CreatedBy_userId", "CreatedBy_email", "CreatedBy_name">>

\* entry[header] = row[i] if i < len(row) else ""
RowEntry(headers, row) ==
    LET idx(h) == CHOOSE i \in 1..Len(headers) :
                      /\ headers[i] = h
                      /\ \A j \in 1..Len(headers) : headers[j] = h => j <= i
    IN [h \in {headers[i] : i \in 1..Len(headers)} |->
           IF idx(h) <= Len(row) THEN row[idx(h)] ELSE <<>>]

\* values: every row of the grid, the header row first
read_sheet_logs(values) ==
    IF values = <<>> \/ Len(values) < 2 THEN <<>>
    ELSE [k \in 1..(Len(values) - 1) |-> RowEntry(values[1], values[k + 1])]

\* get = lambda *keys: next((row.get(k) for k in keys if row.get(k) is not None), "")
RECURSIVE Get(_, _)
Get(row, keys) ==
    IF keys = <<>> THEN <<>>
    ELSE IF Head(keys) \in DOMAIN row THEN row[Head(keys)]
    ELSE Get(row, Tail(keys))

sheet_row_to_json(row) ==
    LET created_by_user_id ==
            OrElse(Get(row, <<"CreatedBy_userId", "CreatedBy_userId", "created_by_user_id">>), <<>>)
        created_by_email ==
            OrElse(Get(row, <<"CreatedBy_email", "CreatedBy_email", "created_by_email">>), <<>>)
        created_by_name ==
            OrElse(Get(row, <<"CreatedBy_name", "CreatedBy_name", "created_by_name">>), <<>>)
    IN [record_id |-> Get(row, <<"Record ID", "record_id">>),
        timestamp |-> Get(row, <<"Timestamp", "timestamp">>),
        vehicle_number |-> Get(row, <<"Vehicle Number", "vehicle_number">>),
        battery1_number |->
            OrElse(Get(row, <<"Battery1 Number", "Battery 1 Number", "battery1_number">>), <<>>),
        battery1_photo_link |->
            OrElse(Get(row, <<"Battery1 Image Link", "Battery1 Photo Link", "battery1_photo_link">>), <<>>),
        battery2_number |->
            OrElse(Get(row, <<"Battery2 Number", "Battery 2 Number", "battery2_number">>), <<>>),
        battery2_photo_link |->
            OrElse(Get(row, <<"Battery2 Image Link", "Battery2 Photo Link", "battery2_photo_link">>), <<>>),
        odometer_value |-> OrElse(Get(row, <<"Odometer Value", "odometer_value">>), <<>>),
        odometer_photo_link |->
            OrElse(Get(row, <<"Odometer Image Link", "Odometer Image Link", "odometer_photo_link">>), <<>>),
        prime_tyres |-> _parse_readable_list(
            Get(row, <<"Prime Tyres (Readable)", "Prime Tyres (Readable)", "Prime Tyres", "">>)),
        prime_tyre_links |-> _parse_links_list_as_strings(
            Get(row, <<"Prime Tyre Links", "Prime Tyre Links", "">>)),
        trailer_tyres |-> _parse_readable_list(
            Get(row, <<"Trailer Tyres (Readable)", "Trailer Tyres (Readable)", "">>)),
        trailer_tyre_links |-> _parse_links_list_as_strings(
            Get(row, <<"Trailer Tyre Links", "Trailer Tyre Links", "">>)),
        vehicle_images |-> _parse_readable_list(
            Get(row, <<"Vehicle Images (Readable)", "Vehicle Images (Readable)", "Vehicle Images", "">>)),
        vehicle_image_links |-> _parse_links_list_as_strings(
            Get(row, <<"Vehicle Image Links", "Vehicle Image Links", "">>)),
        created_by |-> [user_id |-> created_by_user_id,
                        email |-> created_by_email,
                        name |-> created_by_name],
        created_by_user_id |-> created_by_user_id,
        created_by_email |-> created_by_email,
        created_by_name |-> created_by_name,
        synced_to_sheets |-> TRUE]

\* [sheet_row_to_json(r) for r in rows]
Transformed(values) ==
    LET rows == read_sheet_logs(values)
    IN [k \in 1..Len(rows) |-> sheet_row_to_json(rows[k])]

(***************************************************************************)
(* State.                                                                  *)
(***************************************************************************)
VARIABLES
    USE_GOOGLE_SHEETS,  \* server.py: the external-sync toggle, read at start-up
    CLERK_DOMAIN,       \* server.py: TRUE when the identity-provider domain is set
    sheet,              \* the grid of the external sheet, header row first
    db,                 \* db.maintenance_logs: the inserted documents, in order
    pc,                 \* where the request being served stands
    req,                \* the request being served
    user,               \* the UserInfo verify_clerk_token returned
    loc,                \* the local variables of submit_maintenance
    resp,               \* the response of the request being served
    calls,              \* the collaborator calls that returned, in order
    start,              \* sheet and db as they were when the request arrived
    nsub,               \* submissions received so far
    codec               \* the line lists of a tyre / image loop run on its own

vars == <<USE_GOOGLE_SHEETS, CLERK_DOMAIN, sheet, db, pc, req, user, loc, resp,
          calls, start, nsub, codec>>

(***************************************************************************)
(* Inputs.                                                                 *)
(***************************************************************************)
DIGITS == <<"0", "1", "2", "3", "4", "5", "6", "7", "8", "9">>

RECURSIVE NumText(_)
NumText(n) ==
    IF n < 10 THEN <<DIGITS[n + 1]>>
    ELSE NumText(n \div 10) \o <<DIGITS[(n % 10) + 1]>>

B64 == <<"b", "6", "4">>
PhotoOpt == {None, B64}

RAISE == <<"raise">>

SeqsUpTo(S, n) == UNION {[1..k -> S] : k \in 0..n}

Positions == {<<"L", "F">>}
Numbers == {<<"T", "1">>}

TyreInfo == [position : Positions, number : Numbers,
             photo_base64 : PhotoOpt, photo_link : {None}]
VehicleImage == [position : Positions, photo_base64 : PhotoOpt, photo_link : {None}]

SubmitVehicles == {<<"N", "L", "9">>}

MaintenanceSubmitRequest ==
    [vehicle_number : SubmitVehicles,
     battery1_number : {<<"B", "1">>},
     battery1_photo_base64 : PhotoOpt,
     battery2_number : {<<>>},
     battery2_photo_base64 : PhotoOpt,
     odometer_value : {None},
     odometer_photo_base64 : PhotoOpt,
     prime_tyres : SeqsUpTo(TyreInfo, MaxTyres),
     trailer_tyres : SeqsUpTo(TyreInfo, MaxTyres),
     vehicle_images : SeqsUpTo(VehicleImage, MaxTyres)]

Authorizations == {"absent", "valid", "unknown_kid", "invalid"}
IdpConditions == {"up", "jwks_unreachable", "users_unreachable", "user_not_200"}

\* identifiers of GET /maintenance/logs/{identifier}
Identifiers == {<<"A", "1">>, <<"A", "2">>, <<"h", "r">>, <<"Z", "Z">>, <<"U", "1">>}
\* the vehicle query parameter of GET /maintenance/logs ("absent" when not sent)
VehicleFilters == {None, <<"h", "r">>}

TheUser == [user_id |-> <<"u">>, email |-> <<"e">>, full_name |-> <<"n">>]

\* a row as the sheet holds it for a record with no tyres and no images
PlainRow(record_id, vehicle_number) ==
    <<record_id, <<"T", "0">>, vehicle_number, <<>>, <<>>, <<>>, <<>>, <<>>, <<>>,
      <<>>, <<>>, <<>>, <<>>, <<>>, <<>>, <<"u">>, <<"e">>, <<"n">>>>

\* the k-th row found in the sheet at start-up: rows written by hand or by
\* earlier runs, the identifier of every second one padded with a blank
InitRow(k) ==
    CASE k % 3 = 1 -> PlainRow(<<"A">> \o NumText(k), <<"H", "R">> \o NumText(k))
      [] k % 3 = 2 -> PlainRow(<<"A">> \o NumText(k) \o <<SP>>, <<"h", "r">> \o NumText(k))
      [] OTHER -> PlainRow(<<"B">> \o NumText(k), <<"N", "L">> \o NumText(k))

\* the sheet at start-up: the header row and up to MaxInitRows rows
InitialSheets ==
    {<<HEADERS>> \o [k \in 1..n |-> InitRow(k)] : n \in 0..MaxInitRows}

NoLists == [readable |-> <<>>, links |-> <<>>]

LocInit ==
    [request |-> None, record_id |-> None, timestamp |-> None, log_data |-> None,
     battery1_link |-> None, battery2_link |-> None, odometer_link |-> None,
     prime |-> NoLists, trailer |-> NoLists, vehicle |-> NoLists,
     i |-> 1, row |-> None]

NoReq == [kind |-> "none", authorization |-> "absent", vehicle |-> None, identifier |-> None]
NoUser == [user_id |-> None, email |-> None, full_name |-> None]
NoResp == [status |-> 0, detail |-> "", cause |-> "", shape |-> "none", body |-> None]

CodecInit == [kind |-> "none", entries |-> <<>>, readable |-> <<>>, links |-> <<>>]

(***************************************************************************)
(* Requests and identity verification (server.py, verify_clerk_token).     *)
(***************************************************************************)
Init ==
    /\ USE_GOOGLE_SHEETS \in BOOLEAN
    /\ CLERK_DOMAIN \in BOOLEAN
    /\ sheet \in InitialSheets
    /\ db = <<>>
    /\ pc = "idle"
    /\ req = NoReq
    /\ user = NoUser
    /\ loc = LocInit
    /\ resp = NoResp
    /\ calls = <<>>
    /\ start = [sheet |-> sheet, db |-> db]
    /\ nsub = 0
    /\ codec = CodecInit

\* a request arrives; FastAPI resolves Depends(verify_clerk_token) first
Receive ==
    /\ pc \in {"idle", "done"}
    /\ \E kind \in {"submit", "list", "get"}, authorization \in Authorizations :
           /\ kind = "submit" => nsub < MaxSubmits
           /\ req' = [kind |-> kind, authorization |-> authorization,
                      vehicle |-> None, identifier |-> None]
           /\ nsub' = IF kind = "submit" THEN nsub + 1 ELSE nsub
    /\ pc' = "verify"
    /\ user' = NoUser
    /\ loc' = LocInit
    /\ resp' = NoResp
    /\ calls' = <<>>
    /\ start' = [sheet |-> sheet, db |-> db]
    /\ UNCHANGED <<USE_GOOGLE_SHEETS, CLERK_DOMAIN, sheet, db, codec>>

Unauthorized_500(detail, cause) ==
    [ok |-> FALSE, status |-> 500, detail |-> detail, cause |-> cause]

\* raise HTTPException(status_code=401, ...), lines 71, 89, 108 and 121
Unauthorized(detail, cause) ==
    [ok |-> FALSE, status |-> 401, detail |-> detail, cause |-> cause]

\* the outcome of verify_clerk_token for a credential and a condition of the
\* identity provider; cause names the place that raised
VerifyResult(authorization, domain, idp) ==
    IF authorization = "absent"
    THEN Unauthorized("Authorization header required", "missing_header")
    ELSE IF ~domain
    THEN [ok |-> FALSE, status |-> 500, detail |-> "CLERK_DOMAIN missing",
          cause |-> "clerk_domain_missing"]
    ELSE IF idp = "jwks_unreachable"
    THEN Unauthorized("Invalid token", "idp_unreachable")
    ELSE IF authorization = "invalid"
    THEN Unauthorized("Invalid token", "invalid_token")
    ELSE IF authorization = "unknown_kid"
    THEN Unauthorized("Invalid token key", "unknown_kid")
    ELSE IF idp = "users_unreachable"
    THEN Unauthorized("Invalid token", "idp_unreachable")
    ELSE IF idp = "user_not_200"
    THEN Unauthorized("Failed to fetch user", "user_fetch_not_200")
    ELSE [ok |-> TRUE, status |-> 200, detail |-> "", cause |-> "none"]

verify_clerk_token ==
    /\ pc = "verify"
    /\ \E idp \in IdpConditions :
           LET out == VerifyResult(req.authorization, CLERK_DOMAIN, idp)
           IN IF out.ok
              THEN /\ user' = TheUser
                   /\ pc' = "handler"
                   /\ resp' = resp
              ELSE /\ user' = user
                   /\ pc' = "done"
                   /\ resp' = [status |-> out.status, detail |-> out.detail,
                               cause |-> out.cause, shape |-> "none", body |-> None]
    /\ UNCHANGED <<USE_GOOGLE_SHEETS, CLERK_DOMAIN, sheet, db, req, loc, calls,
                   start, nsub, codec>>

(***************************************************************************)
(* google_sync.py: the media upload.                                       *)
(***************************************************************************)
\* the link Drive gives the n-th file
Link(n) == <<"h", ":", "/">> \o NumText(n)

\* the values upload_base64_image can return for a payload, n being the
\* number of the upload
upload_base64_image(base64_str, n) ==
    IF ~Truthy(base64_str) THEN {<<>>}
    ELSE {<<>>, Link(n)}

\* what awaiting an upload can end with: a return value, or an exception
\* out of the part of upload_base64_image that no try covers
UploadOutcomes(base64_str, n) ==
    upload_base64_image(base64_str, n) \cup (IF Truthy(base64_str) THEN {RAISE} ELSE {})

Call(op, item, result) == [op |-> op, item |-> item, result |-> result]

(***************************************************************************)
(* POST /maintenance/submit (server.py, submit_maintenance).               *)
(***************************************************************************)
\* lines 251-268
NewLogData(request, record_id, timestamp, u) ==
    [record_id |-> record_id,
     timestamp |-> timestamp,
     vehicle_number |-> request.vehicle_number,
     battery1_number |-> request.battery1_number,
     battery1_photo_link |-> None,
     battery2_number |-> request.battery2_number,
     battery2_photo_link |-> None,
     odometer_value |-> request.odometer_value,
     odometer_photo_link |-> None,
     prime_tyres |-> request.prime_tyres,
     trailer_tyres |-> request.trailer_tyres,
     vehicle_images |-> request.vehicle_images,
     created_by_user_id |-> u.user_id,
     created_by_email |-> u.email,
     created_by_name |-> u.full_name,
     synced_to_sheets |-> FALSE]

\* the list a loop phase runs over
PhaseList(request, phase) ==
    CASE phase = "prime" -> request.prime_tyres
      [] phase = "trailer" -> request.trailer_tyres
      [] phase = "vehicle" -> request.vehicle_images

PhaseOrder == <<"prime", "trailer", "vehicle", "append">>

\* the first phase from the k-th on whose loop has an entry to run, the row
\* append when none has
RECURSIVE EnterPhaseFrom(_, _)
EnterPhaseFrom(request, k) ==
    IF PhaseOrder[k] = "append" THEN "append"
    ELSE IF PhaseList(request, PhaseOrder[k]) # <<>> THEN PhaseOrder[k]
    ELSE EnterPhaseFrom(request, k + 1)

PhaseIndex(phase) == CHOOSE k \in 1..Len(PhaseOrder) : PhaseOrder[k] = phase

AfterPass_early(request, phase, i) ==
    IF i < Len(PhaseList(request, phase))
    THEN [pc |-> phase, i |-> i + 1]
    ELSE [pc |-> "append", i |-> 1]

\* where control goes after the i-th pass of a loop
AfterPass(request, phase, i) ==
    IF i < Len(PhaseList(request, phase))
    THEN [pc |-> phase, i |-> i + 1]
    ELSE [pc |-> EnterPhaseFrom(request, PhaseIndex(phase) + 1), i |-> 1]

\* lines 247-270: identifier, timestamp and the record; the sync sequence is
\* entered only with the toggle on
submit_maintenance ==
    /\ pc = "handler"
    /\ req.kind = "submit"
    /\ \E request \in MaintenanceSubmitRequest :
           LET record_id == <<"U">> \o NumText(nsub)
               timestamp == <<"T">> \o NumText(nsub)
           IN loc' = [loc EXCEPT !.request = request,
                                 !.record_id = record_id,
                                 !.timestamp = timestamp,
                                 !.log_data = NewLogData(request, record_id, timestamp, user)]
    /\ pc' = IF USE_GOOGLE_SHEETS THEN "battery1" ELSE "insert"
    /\ UNCHANGED <<USE_GOOGLE_SHEETS, CLERK_DOMAIN, sheet, db, req, user, resp,
                   calls, start, nsub, codec>>

MainPayload(request, item) ==
    CASE item = "battery1" -> request.battery1_photo_base64
      [] item = "battery2" -> request.battery2_photo_base64
      [] item = "odometer" -> request.odometer_photo_base64

WithMainLinks_allornone(log_data, battery1_link, battery2_link, odometer_link) ==
    IF <<>> \in {battery1_link, battery2_link, odometer_link} THEN log_data
    ELSE [log_data EXCEPT !.battery1_photo_link = battery1_link,
                          !.battery2_photo_link = battery2_link,
                          !.odometer_photo_link = odometer_link]

\* lines 289-291
WithMainLinks(log_data, battery1_link, battery2_link, odometer_link) ==
    [log_data EXCEPT !.battery1_photo_link = OrElse(battery1_link, None),
                     !.battery2_photo_link = OrElse(battery2_link, None),
                     !.odometer_photo_link = OrElse(odometer_link, None)]

\* lines 273-291: the upload of battery1, battery2 or odometer returns
UploadMain(item) ==
    /\ pc = item
    /\ \E r \in UploadOutcomes(MainPayload(loc.request, item), Len(calls) + 1) :
           /\ calls' = Append(calls, Call("upload", item, r))
           /\ IF r = RAISE
              THEN /\ pc' = "insert"
                   /\ loc' = loc
              ELSE CASE item = "battery1" ->
                            /\ pc' = "battery2"
                            /\ loc' = [loc EXCEPT !.battery1_link = r]
                     [] item = "battery2" ->
                            /\ pc' = "odometer"
                            /\ loc' = [loc EXCEPT !.battery2_link = r]
                     [] item = "odometer" ->
                            /\ pc' = EnterPhaseFrom(loc.request, 1)
                            /\ loc' = [loc EXCEPT
                                   !.odometer_link = r,
                                   !.log_data = WithMainLinks(loc.log_data,
                                       loc.battery1_link, loc.battery2_link, r)]
    /\ UNCHANGED <<USE_GOOGLE_SHEETS, CLERK_DOMAIN, sheet, db, req, user, resp,
                   start, nsub, codec>>

\* the line lists of a phase after one more pass
PassLines(phase, lists, entry, link) ==
    IF phase = "vehicle" THEN AppendImageLines(lists, entry, link)
    ELSE AppendTyreLines(lists, entry, link)

\* lines 294-331: one pass of the prime, trailer or vehicle-image loop; an
\* entry with a payload waits for its upload, one without takes the placeholder
LoopPass(phase) ==
    /\ pc = phase
    /\ LET entry == PhaseList(loc.request, phase)[loc.i]
           next == AfterPass(loc.request, phase, loc.i)
       IN IF Truthy(entry.photo_base64)
          THEN \E r \in UploadOutcomes(entry.photo_base64, Len(calls) + 1) :
                   /\ calls' = Append(calls, Call("upload", phase, r))
                   /\ IF r = RAISE
                      THEN /\ pc' = "insert"
                           /\ loc' = loc
                      ELSE /\ pc' = next.pc
                           /\ loc' = [loc EXCEPT
                                  ![phase] = PassLines(phase, loc[phase], entry, r),
                                  !.i = next.i]
          ELSE /\ calls' = calls
               /\ pc' = next.pc
               /\ loc' = [loc EXCEPT
                      ![phase] = PassLines(phase, loc[phase], entry, <<>>),
                      !.i = next.i]
    /\ UNCHANGED <<USE_GOOGLE_SHEETS, CLERK_DOMAIN, sheet, db, req, user, resp,
                   start, nsub, codec>>

\* lines 334-353
BuildRow(l, u) ==
    <<l.record_id,
      l.timestamp,
      l.request.vehicle_number,
      OrElse(l.request.battery1_number, <<>>),
      OrElse(l.battery1_link, <<>>),
      OrElse(l.request.battery2_number, <<>>),
      OrElse(l.battery2_link, <<>>),
      OrElse(l.request.odometer_value, <<>>),
      OrElse(l.odometer_link, <<>>),
      JoinLines(l.prime.readable),
      JoinLines(l.prime.links),
      JoinLines(l.trailer.readable),
      JoinLines(l.trailer.links),
      JoinLines(l.vehicle.readable),
      JoinLines(l.vehicle.links),
      u.user_id,
      u.email,
      u.full_name>>

AfterAppend_always(l, row, ok) ==
    [l EXCEPT !.row = row, !.log_data.synced_to_sheets = TRUE]

\* lines 355-359: synced_to_sheets is set only when the append returned;
\* when it raised, control is in the except clause and the flag is untouched
AfterAppend(l, row, ok) ==
    IF ok THEN [l EXCEPT !.row = row, !.log_data.synced_to_sheets = TRUE]
    ELSE [l EXCEPT !.row = row]

\* lines 333-359: the row is built and appended
append_row_to_sheet ==
    /\ pc = "append"
    /\ LET row == BuildRow(loc, user)
       IN \E ok \in BOOLEAN :
              /\ sheet' = IF ok THEN Append(sheet, row) ELSE sheet
              /\ calls' = Append(calls, Call("append", "row", IF ok THEN <<>> ELSE RAISE))
              /\ loc' = AfterAppend(loc, row, ok)
    /\ pc' = "insert"
    /\ UNCHANGED <<USE_GOOGLE_SHEETS, CLERK_DOMAIN, db, req, user, resp, start,
                   nsub, codec>>

\* tyre.pop("photo_base64", None)
Pop(entry, key) == [k \in DOMAIN entry \ {key} |-> entry[k]]

PopAll(entries, key) == [k \in 1..Len(entries) |-> Pop(entries[k], key)]

StripPayloads_prime_only(log_data) ==
    [log_data EXCEPT !.prime_tyres = PopAll(@, "photo_base64")]

\* lines 362-368
StripPayloads(log_data) ==
    [log_data EXCEPT !.prime_tyres = PopAll(@, "photo_base64"),
                     !.trailer_tyres = PopAll(@, "photo_base64"),
                     !.vehicle_images = PopAll(@, "photo_base64")]

\* lines 361-376: the payloads are removed and the document is inserted; a
\* failed insert is the handler's internal error
insert_one ==
    /\ pc = "insert"
    /\ LET backup == StripPayloads(loc.log_data)
       IN \E ok \in BOOLEAN :
              IF ok
              THEN /\ db' = Append(db, backup)
                   /\ calls' = Append(calls, Call("insert", "doc", <<>>))
                   /\ resp' = [status |-> 200, detail |-> "Log submitted",
                               cause |-> "none", shape |-> "submit",
                               body |-> [success |-> TRUE, record_id |-> loc.record_id]]
              ELSE /\ db' = db
                   /\ calls' = Append(calls, Call("insert", "doc", RAISE))
                   /\ resp' = [status |-> 500, detail |-> "insert_one raised",
                               cause |-> "insert_failed", shape |-> "none",
                               body |-> None]
    /\ pc' = "done"
    /\ UNCHANGED <<USE_GOOGLE_SHEETS, CLERK_DOMAIN, sheet, req, user, loc, start,
                   nsub, codec>>

(***************************************************************************)
(* GET /maintenance/logs and GET /maintenance/logs/{identifier}.           *)
(***************************************************************************)
InternalError(detail, cause) ==
    [status |-> 500, detail |-> detail, cause |-> cause, shape |-> "none",
     body |-> None]

\* lines 385-387: every row, transformed; the handler takes no vehicle
\* parameter, so the one the caller sent is not looked at
get_logs_result(values, vehicle) ==
    [status |-> 200, detail |-> "", cause |-> "none", shape |-> "logs",
     body |-> Transformed(values)]

get_logs ==
    /\ pc = "handler"
    /\ req.kind = "list"
    /\ \E vehicle \in VehicleFilters, ok \in BOOLEAN :
           /\ req' = [req EXCEPT !.vehicle = vehicle]
           /\ IF ok
              THEN /\ calls' = Append(calls, Call("read", "sheet", <<>>))
                   /\ resp' = get_logs_result(sheet, vehicle)
              ELSE /\ calls' = Append(calls, Call("read", "sheet", RAISE))
                   /\ resp' = InternalError("Failed to fetch logs", "read_failed")
    /\ pc' = "done"
    /\ UNCHANGED <<USE_GOOGLE_SHEETS, CLERK_DOMAIN, sheet, db, user, loc, start,
                   nsub, codec>>

IdMatches_nostrip(r, identifier) == OrElse(r.record_id, <<>>) = identifier

\* (r.get("record_id") or "").strip() == identifier
IdMatches(r, identifier) == Strip(OrElse(r.record_id, <<>>)) = identifier

\* identifier.lower() in (r.get("vehicle_number") or "").lower()
VehicleMatches(r, identifier) ==
    Contains(Lower(OrElse(r.vehicle_number, <<>>)), Lower(identifier))

\* lines 402-412, inside the try: the value returned, or the HTTPException
\* raised
get_single_log_body(values, identifier) ==
    LET transformed == Transformed(values)
        exact == SelectSeq(transformed, LAMBDA r : IdMatches(r, identifier))
        matches == SelectSeq(transformed, LAMBDA r : VehicleMatches(r, identifier))
    IN IF exact # <<>>
       THEN [raised |-> FALSE, status |-> 200, detail |-> "", cause |-> "none",
             shape |-> "record", body |-> exact[1]]
       ELSE IF matches = <<>>
       THEN [raised |-> TRUE, status |-> 404, detail |-> "Record not found",
             cause |-> "not_found", shape |-> "none", body |-> None]
       ELSE [raised |-> FALSE, status |-> 200, detail |-> "", cause |-> "none",
             shape |-> "logs", body |-> matches]

\* lines 398-416: "except Exception" also catches the HTTPException raised
\* inside the try, and answers it with the internal error
get_single_log_result(values, identifier) ==
    LET out == get_single_log_body(values, identifier)
    IN IF out.raised
       THEN InternalError("Failed to fetch log", out.cause)
       ELSE [status |-> out.status, detail |-> out.detail, cause |-> out.cause,
             shape |-> out.shape, body |-> out.body]

get_single_log ==
    /\ pc = "handler"
    /\ req.kind = "get"
    /\ \E identifier \in Identifiers, ok \in BOOLEAN :
           /\ req' = [req EXCEPT !.identifier = identifier]
           /\ IF ok
              THEN /\ calls' = Append(calls, Call("read", "sheet", <<>>))
                   /\ resp' = get_single_log_result(sheet, identifier)
              ELSE /\ calls' = Append(calls, Call("read", "sheet", RAISE))
                   /\ resp' = InternalError("Failed to fetch log", "read_failed")
    /\ pc' = "done"
    /\ UNCHANGED <<USE_GOOGLE_SHEETS, CLERK_DOMAIN, sheet, db, user, loc, start,
                   nsub, codec>>

(***************************************************************************)
(* The service.                                                            *)
(***************************************************************************)
Next ==
    \/ Receive
    \/ verify_clerk_token
    \/ submit_maintenance
    \/ \E item \in {"battery1", "battery2", "odometer"} : UploadMain(item)
    \/ \E phase \in {"prime", "trailer", "vehicle"} : LoopPass(phase)
    \/ append_row_to_sheet
    \/ insert_one
    \/ get_logs
    \/ get_single_log

Spec == Init /\ [][Next]_vars

(***************************************************************************)
(* The tyre and image loops of the submission run on their own, over       *)
(* positions and numbers drawn from every text of an alphabet that holds   *)
(* the separator, a blank and a line break.                                *)
(***************************************************************************)
CodecAlphabet == {"L", COLON, SP, NL}

CodecTyres ==
    [position : SeqsUpTo(CodecAlphabet, MaxPosLen),
     number : SeqsUpTo(CodecAlphabet, MaxNumLen),
     photo_base64 : PhotoOpt, photo_link : {None}]

CodecImages ==
    [position : SeqsUpTo(CodecAlphabet, MaxPosLen),
     photo_base64 : PhotoOpt, photo_link : {None}]

InitCodec ==
    /\ USE_GOOGLE_SHEETS = TRUE
    /\ CLERK_DOMAIN = TRUE
    /\ sheet = <<HEADERS>>
    /\ db = <<>>
    /\ pc = "idle"
    /\ req = NoReq
    /\ user = NoUser
    /\ loc = LocInit
    /\ resp = NoResp
    /\ calls = <<>>
    /\ start = [sheet |-> sheet, db |-> db]
    /\ nsub = 0
    /\ \E kind \in {"tyres", "images"} : codec = [CodecInit EXCEPT !.kind = kind]

\* lines 295-305 / 308-318: one pass of a tyre loop, the upload (when one is
\* made) having returned link
CodecTyrePass ==
    /\ codec.kind = "tyres"
    /\ Len(codec.entries) < MaxEntries
    /\ \E t \in CodecTyres :
         \E link \in upload_base64_image(t.photo_base64, Len(codec.entries) + 1) :
           LET lists == AppendTyreLines([readable |-> codec.readable,
                                         links |-> codec.links], t, link)
           IN codec' = [codec EXCEPT
                  !.entries = Append(@, [position |-> t.position,
                                         number |-> t.number,
                                         photo_base64 |-> t.photo_base64,
                                         link |-> link]),
                  !.readable = lists.readable,
                  !.links = lists.links]
    /\ UNCHANGED <<USE_GOOGLE_SHEETS, CLERK_DOMAIN, sheet, db, pc, req, user, loc,
                   resp, calls, start, nsub>>

\* lines 321-331: one pass of the vehicle-image loop
CodecImagePass ==
    /\ codec.kind = "images"
    /\ Len(codec.entries) < MaxEntries
    /\ \E v \in CodecImages :
         \E link \in upload_base64_image(v.photo_base64, Len(codec.entries) + 1) :
           LET lists == AppendImageLines([readable |-> codec.readable,
                                          links |-> codec.links], v, link)
           IN codec' = [codec EXCEPT
                  !.entries = Append(@, [position |-> v.position,
                                         number |-> <<>>,
                                         photo_base64 |-> v.photo_base64,
                                         link |-> link]),
                  !.readable = lists.readable,
                  !.links = lists.links]
    /\ UNCHANGED <<USE_GOOGLE_SHEETS, CLERK_DOMAIN, sheet, db, pc, req, user, loc,
                   resp, calls, start, nsub>>

NextCodec == CodecTyrePass \/ CodecImagePass

SpecCodec == InitCodec /\ [][NextCodec]_vars

(***************************************************************************)
(* Properties of the codec.                                                *)
(***************************************************************************)
HasChar(s, c) == \E i \in 1..Len(s) : s[i] = c

\* the (position, number) pairs put in
PairsIn(entries) ==
    [i \in 1..Len(entries) |->
        [position |-> entries[i].position, number |-> entries[i].number]]

\* the (position, link) pairs put in, no link being the empty text
LinksIn(entries) ==
    [i \in 1..Len(entries) |->
        [position |-> entries[i].position,
         photo_link |-> IF Truthy(entries[i].photo_base64)
                        THEN entries[i].link ELSE <<>>]]

\* a position that holds no colon and no line break and has no blank at
\* either end
PlainPosition(s) == ~HasChar(s, COLON) /\ ~HasChar(s, NL) /\ Strip(s) = s

\* a number that holds no line break and has no blank at either end
PlainNumber(s) == ~HasChar(s, NL) /\ Strip(s) = s

ReadableRoundTrip ==
    _parse_readable_list(JoinLines(codec.readable)) = PairsIn(codec.entries)

LinksRoundTrip ==
    _parse_links_list_as_strings(JoinLines(codec.links)) = LinksIn(codec.entries)

\* C8 as stated: every non-empty list of {position, number} entries, encoded
\* one "{position}: {number}" line per entry and decoded by
\* _parse_readable_list, comes back as the same pairs in the same order.
C8_AnyListRoundTrips ==
    (codec.kind = "tyres" /\ codec.entries # <<>>) => ReadableRoundTrip

\* C8 amended: the round trip holds for every non-empty list whose positions
\* hold no colon and no line break and whose positions and numbers hold no
\* line break and no leading or trailing whitespace; order, count and
\* duplicate positions are kept.
C8_PlainListRoundTrips ==
    (/\ codec.kind = "tyres"
     /\ codec.entries # <<>>
     /\ \A i \in 1..Len(codec.entries) :
           /\ PlainPosition(codec.entries[i].position)
           /\ PlainNumber(codec.entries[i].number))
    => ReadableRoundTrip

\* two plain entries with the same position and different numbers, the second
\* number holding a colon
C8_Witness ==
    /\ codec.kind = "tyres"
    /\ Len(codec.entries) = 2
    /\ codec.entries[1].position = <<"L">>
    /\ codec.entries[2].position = <<"L">>
    /\ codec.entries[1].number = <<"L">>
    /\ codec.entries[2].number = <<COLON>>
    /\ ReadableRoundTrip

\* C9 as stated: every list of {position, link-or-empty} entries, encoded
\* into the link column and decoded by _parse_links_list_as_strings, comes
\* back with the same positions and links, no link decoding to "".
C9_AnyLinksRoundTrip ==
    codec.kind \in {"tyres", "images"} => LinksRoundTrip

\* C9 amended: the round trip of the link column holds for every list whose
\* positions hold no colon, no line break and no leading or trailing
\* whitespace; an entry without payload (placeholder line) and an entry whose
\* upload returned the empty link both decode to photo_link "".
C9_PlainLinksRoundTrip ==
    (/\ codec.kind \in {"tyres", "images"}
     /\ \A i \in 1..Len(codec.entries) : PlainPosition(codec.entries[i].position))
    => LinksRoundTrip

\* a placeholder line followed by the line of an upload that returned the
\* empty link
C9_Witness ==
    /\ codec.kind = "images"
    /\ Len(codec.entries) = 2
    /\ codec.entries[1].position = <<"L">>
    /\ ~Truthy(codec.entries[1].photo_base64)
    /\ codec.entries[2].position = <<"L", "L">>
    /\ Truthy(codec.entries[2].photo_base64)
    /\ codec.entries[2].link = <<>>
    /\ codec.links = << <<"L", COLON, SP>> \o NO_PHOTO, <<"L", "L", COLON, SP>> >>
    /\ LinksRoundTrip

(***************************************************************************)
(* Properties of the service.                                              *)
(***************************************************************************)
CallsWhere(op, result) ==
    {k \in 1..Len(calls) : calls[k].op = op /\ calls[k].result = result}

CallsOf(op) == {k \in 1..Len(calls) : calls[k].op = op}

Raised(op) == CallsWhere(op, RAISE) # {}

\* the records the sheet held when the request arrived
RecordsAtStart == Transformed(start.sheet)

\* the data rows of the sheet whose first column is an identifier
RowsWithId(values, record_id) ==
    {k \in 2..Len(values) : values[k][1] = record_id}

\* a get request whose sheet read returned
GetAnswered ==
    /\ pc = "done"
    /\ req.kind = "get"
    /\ calls = <<Call("read", "sheet", <<>>)>>

\* C1: when no row's record_id equals the identifier (not even with its
\* surrounding blanks removed) and no row's vehicle_number contains the
\* identifier case-insensitively, get_single_log ends with 404, not 500.
C1_NotFoundIs404 ==
    (/\ GetAnswered
     /\ \A k \in 1..Len(RecordsAtStart) :
           /\ Strip(RecordsAtStart[k].record_id) # req.identifier
           /\ RecordsAtStart[k].record_id # req.identifier
           /\ ~Contains(Lower(RecordsAtStart[k].vehicle_number), Lower(req.identifier)))
    => (resp.status = 404 /\ resp.status # 500)

\* a submission, sync enabled, whose insert returned
SubmitInserted ==
    /\ pc = "done"
    /\ req.kind = "submit"
    /\ CallsWhere("insert", <<>>) # {}

\* C2: with sync enabled, when an upload or the row append raises and the
\* insert succeeds, the response is success=True with the generated
\* record_id and the inserted document has synced_to_sheets = FALSE.
C2_SyncFailureStillSucceeds ==
    (/\ SubmitInserted
     /\ USE_GOOGLE_SHEETS
     /\ (Raised("upload") \/ Raised("append")))
    => /\ resp.status = 200
       /\ resp.shape = "submit"
       /\ resp.body.success = TRUE
       /\ resp.body.record_id = loc.record_id
       /\ Len(db) = Len(start.db) + 1
       /\ db[Len(db)].record_id = loc.record_id
       /\ db[Len(db)].synced_to_sheets = FALSE

\* the three main uploads returned a link, the row append raised, the insert
\* returned
C2_Witness ==
    /\ SubmitInserted
    /\ USE_GOOGLE_SHEETS
    /\ Raised("append")
    /\ loc.battery1_link = Link(1)
    /\ resp.status = 200
    /\ db[Len(db)].synced_to_sheets = FALSE

NoPayloadKey(entries) ==
    \A k \in 1..Len(entries) : "photo_base64" \notin DOMAIN entries[k]

\* C3: no stored document holds a raw payload: no photo_base64 key in any
\* prime_tyres, trailer_tyres or vehicle_images entry and no battery /
\* odometer base64 field at top level.
C3_NoPayloadStored ==
    \A d \in 1..Len(db) :
        /\ NoPayloadKey(db[d].prime_tyres)
        /\ NoPayloadKey(db[d].trailer_tyres)
        /\ NoPayloadKey(db[d].vehicle_images)
        /\ DOMAIN db[d] \cap {"battery1_photo_base64", "battery2_photo_base64",
                              "odometer_photo_base64", "photo_base64"} = {}

\* a stored document of a submission that carried a payload on every item,
\* the sync having failed
C3_Witness ==
    /\ SubmitInserted
    /\ Len(db) = 1
    /\ Raised("upload")
    /\ Truthy(loc.request.battery1_photo_base64)
    /\ Truthy(loc.request.battery2_photo_base64)
    /\ Truthy(loc.request.odometer_photo_base64)
    /\ Len(loc.request.prime_tyres) = 1
    /\ Truthy(loc.request.prime_tyres[1].photo_base64)
    /\ Len(loc.request.trailer_tyres) = 1
    /\ Truthy(loc.request.trailer_tyres[1].photo_base64)
    /\ Len(loc.request.vehicle_images) = 1
    /\ Truthy(loc.request.vehicle_images[1].photo_base64)
    /\ Len(db[1].trailer_tyres) = 1

\* the ways identity verification fails
VerificationFailures ==
    {"missing_header", "unknown_kid", "invalid_token", "user_fetch_not_200",
     "idp_unreachable"}

NoSideEffects ==
    /\ calls = <<>>
    /\ sheet = start.sheet
    /\ db = start.db
    /\ loc = LocInit

\* C4: when identity verification fails (missing header, unknown key id,
\* invalid token, user fetch not 200, identity provider unreachable) the
\* request ends with 401 and made no upload, row append, sheet read or
\* insert; no handler position is reached without a verified user.
C4_UnauthorizedNoSideEffects ==
    /\ (pc = "done" /\ resp.cause \in VerificationFailures)
          => (resp.status = 401 /\ NoSideEffects)
    /\ (pc # "idle" /\ req.authorization # "valid")
          => (pc \in {"verify", "done"} /\ NoSideEffects)
    /\ (pc = "done" /\ req.authorization # "valid" /\ CLERK_DOMAIN)
          => resp.status = 401
    /\ (pc \notin {"idle", "verify", "done"} \/ calls # <<>>)
          => (user = TheUser /\ req.authorization = "valid" /\ CLERK_DOMAIN)

\* a submission refused because the user fetch did not answer 200, a record
\* being already in the sheet
C4_Witness ==
    /\ pc = "done"
    /\ req.kind = "submit"
    /\ resp.cause = "user_fetch_not_200"
    /\ resp.status = 401
    /\ Len(sheet) > 1
    /\ NoSideEffects

\* C5: when the insert of a submission fails, the submission ends with 500
\* and nothing of it was recorded: no document in the store and no row with
\* its record_id in the sheet.
C5_FailedInsertLeavesNothing ==
    (/\ pc = "done"
     /\ req.kind = "submit"
     /\ Raised("insert"))
    => /\ resp.status = 500
       /\ \A d \in 1..Len(db) : db[d].record_id # loc.record_id
       /\ RowsWithId(sheet, loc.record_id) = {}

ExactAtStart(identifier) ==
    SelectSeq(RecordsAtStart, LAMBDA r : r.record_id = identifier)

TrimmedAtStart(identifier) ==
    SelectSeq(RecordsAtStart, LAMBDA r : Strip(r.record_id) = identifier)

VehicleAtStart(text) ==
    SelectSeq(RecordsAtStart,
              LAMBDA r : Contains(Lower(r.vehicle_number), Lower(text)))

C7_ListFiltersByVehicle ==
    (/\ pc = "done"
     /\ req.kind = "list"
     /\ calls = <<Call("read", "sheet", <<>>)>>)
    => /\ resp.shape = "logs"
       /\ resp.body = IF Truthy(req.vehicle) THEN VehicleAtStart(req.vehicle)
                      ELSE RecordsAtStart

\* the items whose upload the sync sequence awaits, in order
RECURSIVE PayloadPasses(_, _)
PayloadPasses(entries, phase) ==
    IF entries = <<>> THEN <<>>
    ELSE (IF Truthy(Head(entries).photo_base64) THEN <<phase>> ELSE <<>>)
         \o PayloadPasses(Tail(entries), phase)

ExpectedUploads(request) ==
    <<"battery1", "battery2", "odometer">>
    \o PayloadPasses(request.prime_tyres, "prime")
    \o PayloadPasses(request.trailer_tyres, "trailer")
    \o PayloadPasses(request.vehicle_images, "vehicle")

\* C10: within one submission the row append is called at most once, only
\* after every upload of the submission has returned (none having raised);
\* every appended row has 18 columns, and no row is appended when the
\* sequence was left before the append.
C10_AppendOnceAfterUploads ==
    /\ Cardinality(CallsOf("append")) <= 1
    /\ \A k \in CallsOf("append") :
          /\ k = Cardinality(CallsOf("upload")) + 1
          /\ [j \in 1..(k - 1) |-> calls[j].item] = ExpectedUploads(loc.request)
          /\ \A j \in 1..(k - 1) : calls[j].op = "upload" /\ calls[j].result # RAISE
    /\ \A k \in 1..Len(sheet) : Len(sheet[k]) = 18
    /\ IF CallsWhere("append", <<>>) # {}
       THEN sheet = Append(start.sheet, loc.row) /\ Len(loc.row) = 18
       ELSE sheet = start.sheet
    /\ Raised("upload") => CallsOf("append") = {}

\* a row appended after six uploads returned, the upload of the trailer tyre
\* with the empty link
C10_Witness ==
    /\ pc = "insert"
    /\ Len(calls) = 7
    /\ calls[7] = Call("append", "row", <<>>)
    /\ calls[5] = Call("upload", "trailer", <<>>)
    /\ calls[6] = Call("upload", "vehicle", Link(6))
    /\ Len(sheet) = Len(start.sheet) + 1

\* the results of the uploads of one item or loop, in call order
UploadResults(item) ==
    LET of == SelectSeq(calls, LAMBDA c : c.op = "upload" /\ c.item = item)
    IN [k \in 1..Len(of) |-> of[k].result]

\* per entry of a list, the link its upload returned; the empty text for an
\* entry without payload
RECURSIVE EntryLinks(_, _)
EntryLinks(entries, results) ==
    IF entries = <<>> THEN <<>>
    ELSE IF Truthy(Head(entries).photo_base64) /\ results # <<>>
    THEN <<Head(results)>> \o EntryLinks(Tail(entries), Tail(results))
    ELSE <<<<>>>> \o EntryLinks(Tail(entries), results)

\* every entry of a stored list carries the link its upload returned
CarriesLinks(stored, entries, results) ==
    /\ Len(stored) = Len(entries)
    /\ \A i \in 1..Len(entries) :
          EntryLinks(entries, results)[i] # <<>>
             => stored[i].photo_link = EntryLinks(entries, results)[i]

\* a submission whose sync succeeded and whose insert returned
SyncedAndInserted ==
    /\ SubmitInserted
    /\ USE_GOOGLE_SHEETS
    /\ CallsWhere("append", <<>>) # {}

\* the link an upload of battery1, battery2 or odometer returned carried by
\* a document field
CarriesMainLink(field, item) ==
    UploadResults(item)[1] # <<>> => field = UploadResults(item)[1]

\* C11: when the sync of a submission succeeds, the inserted document has
\* synced_to_sheets = TRUE and carries every resolved link: the three
\* top-level photo links and the photo_link of each prime tyre, trailer tyre
\* and vehicle image entry equal the link the upload returned for the item.
C11_DocumentCarriesLinks ==
    SyncedAndInserted =>
        LET doc == db[Len(db)]
        IN /\ doc.synced_to_sheets = TRUE
           /\ CarriesMainLink(doc.battery1_photo_link, "battery1")
           /\ CarriesMainLink(doc.battery2_photo_link, "battery2")
           /\ CarriesMainLink(doc.odometer_photo_link, "odometer")
           /\ CarriesLinks(doc.prime_tyres, loc.request.prime_tyres,
                           UploadResults("prime"))
           /\ CarriesLinks(doc.trailer_tyres, loc.request.trailer_tyres,
                           UploadResults("trailer"))
           /\ CarriesLinks(doc.vehicle_images, loc.request.vehicle_images,
                           UploadResults("vehicle"))

\* the line the link column holds for an entry: the placeholder when no
\* link was produced, the link otherwise
ExpectedLinkLine(position, link) ==
    IF link = <<>> THEN position \o COLON \o SP \o NO_PHOTO
    ELSE position \o COLON \o SP \o link

\* the text of a link column of the row for a list and its uploads
ExpectedLinkColumn(entries, results) ==
    JoinLines([i \in 1..Len(entries) |->
                  ExpectedLinkLine(entries[i].position,
                                   EntryLinks(entries, results)[i])])

\* a submission whose row has been handed to the sheet
RowAppended ==
    /\ req.kind = "submit"
    /\ USE_GOOGLE_SHEETS
    /\ CallsOf("append") # {}

\* C12: in the link columns of the row, the line of a tyre or image entry is
\* "{position}: (no photo)" whenever no link was produced for it (no photo
\* supplied, or the upload returned the empty link) and "{position}: {link}"
\* otherwise.
C12_PlaceholderWhenNoLink ==
    RowAppended =>
        /\ loc.row[11] = ExpectedLinkColumn(loc.request.prime_tyres,
                                            UploadResults("prime"))
        /\ loc.row[13] = ExpectedLinkColumn(loc.request.trailer_tyres,
                                            UploadResults("trailer"))
        /\ loc.row[15] = ExpectedLinkColumn(loc.request.vehicle_images,
                                            UploadResults("vehicle"))

\* the uploads of a supplied photo that returned the empty link
FailedUploads ==
    {k \in CallsWhere("upload", <<>>) :
        calls[k].item \in {"battery1", "battery2", "odometer"}
           => Truthy(MainPayload(loc.request, calls[k].item))}

\* the sync block of a submission is over, an upload in it failed and no
\* upload let an exception out
DegradedSync ==
    /\ req.kind = "submit"
    /\ USE_GOOGLE_SHEETS
    /\ pc \in {"insert", "done"}
    /\ FailedUploads # {}
    /\ ~Raised("upload")

\* the lines of a link column of the row carry the link of every entry
\* whose upload returned one
KeepsLinkLines(column, entries, results) ==
    LET lines == SplitLines(column)
        links == EntryLinks(entries, results)
    IN \A i \in 1..Len(entries) :
          links[i] # <<>> =>
             /\ i <= Len(lines)
             /\ lines[i] = entries[i].position \o COLON \o SP \o links[i]

\* C13: with sync enabled, an upload that fails (returns the empty link)
\* degrades that item only: every other upload is still attempted, the row
\* and the record keep the links the other uploads returned, the row is
\* handed to the sheet and, the append returning, synced_to_sheets is true.
C13_FailedUploadDegradesOneItem ==
    DegradedSync =>
        /\ [j \in 1..Cardinality(CallsOf("upload")) |-> calls[j].item]
              = ExpectedUploads(loc.request)
        /\ CallsOf("append") # {}
        /\ loc.row[5] = UploadResults("battery1")[1]
        /\ loc.row[7] = UploadResults("battery2")[1]
        /\ loc.row[9] = UploadResults("odometer")[1]
        /\ loc.log_data.battery1_photo_link = OrElse(UploadResults("battery1")[1], None)
        /\ loc.log_data.battery2_photo_link = OrElse(UploadResults("battery2")[1], None)
        /\ loc.log_data.odometer_photo_link = OrElse(UploadResults("odometer")[1], None)
        /\ KeepsLinkLines(loc.row[11], loc.request.prime_tyres, UploadResults("prime"))
        /\ KeepsLinkLines(loc.row[13], loc.request.trailer_tyres, UploadResults("trailer"))
        /\ KeepsLinkLines(loc.row[15], loc.request.vehicle_images, UploadResults("vehicle"))
        /\ ~Raised("append") =>
              /\ sheet = Append(start.sheet, loc.row)
              /\ loc.log_data.synced_to_sheets = TRUE
              /\ SubmitInserted => db[Len(db)].synced_to_sheets = TRUE

\* the upload of battery1 failed, battery2 and a prime tyre got their links,
\* the row was appended and the record inserted with the flag set
C13_Witness ==
    /\ DegradedSync
    /\ SubmitInserted
    /\ Truthy(loc.request.battery1_photo_base64)
    /\ calls[1] = Call("upload", "battery1", <<>>)
    /\ calls[2] = Call("upload", "battery2", Link(2))
    /\ calls[4] = Call("upload", "prime", Link(4))
    /\ loc.row[7] = Link(2)
    /\ loc.row[11] = <<"L", "F">> \o COLON \o SP \o Link(4)
    /\ ~Raised("append")
    /\ db[Len(db)].synced_to_sheets = TRUE
    /\ db[Len(db)].battery2_photo_link = Link(2)

=============================================================================
